---- MODULE Spec2Model ----
(***************************************************************************)
(* Job supervision of pkg/mediaopt: OptimizeMedia, CleanupProcess, the      *)
(* activeProcesses registry, the engine process, the progress tailer and    *)
(* the files a job creates.                                                 *)
(*                                                                          *)
(* One job is one call of OptimizeMedia.  Calls run concurrently (the HTTP  *)
(* front end starts each in its own goroutine).  The engine (ffmpeg) and    *)
(* the probes (ffprobe) are opaque: their outcomes are nondeterministic.    *)
(*                                                                          *)
(* Time: the two timeouts of the code are modelled by their expiry.  The    *)
(* timer of time.After(5 * time.Second) in CleanupProcess fires in          *)
(* GraceTimerFires; time.Since(lastProgressTime) exceeds the 5 minutes of   *)
(* progressStallTimeout in StallWindowPasses.  A computation step that is   *)
(* ready to run (a goroutine woken by a process exit, a select with a ready *)
(* channel) takes no measurable time: the grace timer does not fire while   *)
(* such a step is pending (Urgent).                                         *)
(*                                                                          *)
(* Spec and FairSpec are the supervision of concurrent jobs, with the steps *)
(* of a call before cmd.Start taken as one (Prepare).  ControlSpec follows  *)
(* one call through these steps one at a time, with the outputs of its two  *)
(* ffprobe runs as inputs: getEnglishAudioStream and getDuration are        *)
(* computed on them.  RunSpec follows one job from cmd.Start to its return, *)
(* with the lines of its progress file, its duration and the engine's       *)
(* stderr as inputs.  NamingSpec follows concurrent calls up to the naming  *)
(* of their temporary files, with the clock readings as inputs.             *)
(* ReturnSpec is the supervision without the progress goroutine, under     *)
(* fairness and with engines that eventually exit.  ParamsSpec applies      *)
(* NewDefaultParams to input paths and temporary directories.  RebuildSpec  *)
(* is one call of ExecuteRebuild of pkg/rebuild.                            *)
(***************************************************************************)
EXTENDS Integers, Sequences, FiniteSets

\* ---------------------------------------------------------------- bounds
NumJobs == 2
NumKeys == 2
MaxFeed == 1

Jobs == 1..NumJobs
Keys == 1..NumKeys
None == 0

\* ------------------------------------------------------------------ files
TempOutput(j) == <<"temp", j>>
ProgressFile(j) == <<"progress", j>>
ReportFile(j) == <<"ffreport", j>>
OutputFile(k) == <<"optimized", k>>

Paths ==
  {TempOutput(j) : j \in Jobs} \cup {ProgressFile(j) : j \in Jobs}
    \cup {ReportFile(j) : j \in Jobs} \cup {OutputFile(k) : k \in Keys}

Absent == [state |-> "absent", by |-> None]
Content(s, j) == [state |-> s, by |-> j]
Remove(fs, p) == [fs EXCEPT ![p] = Absent]

\* --------------------------------------------------------- progress lines
\* A line of the progress sink, key=value.  num tells whether the value is
\* the decimal text of an integer (what strconv.ParseInt accepts); val is that
\* integer, in microseconds.
Line(k, isNum, v) == [key |-> k, num |-> isNum, val |-> v]

EngineLines ==
  { Line("out_time_ms", TRUE, 5000000), Line("out_time_ms", FALSE, 0),
    Line("invalid", FALSE, 0) }

\* What getDuration returns for the inputs of the model, in seconds.
Durations == {10}

\* A float64 of the progress computation is modelled by the exact quotient it
\* approximates: a fraction in lowest terms with a positive denominator.  A
\* division by zero gives +Inf, -Inf or NaN, written 1/0, -1/0 and 0/0.
Abs(n) == IF n < 0 THEN -n ELSE n

RECURSIVE GCD(_, _)
GCD(a, b) == IF b = 0 THEN a ELSE GCD(b, a % b)

Quot(n, d) ==
  IF d = 0
  THEN [num |-> IF n > 0 THEN 1 ELSE IF n < 0 THEN -1 ELSE 0, den |-> 0]
  ELSE LET g == GCD(Abs(n), Abs(d))
           s == IF d < 0 THEN -1 ELSE 1
       IN [num |-> (s * n) \div g, den |-> (s * d) \div g]

\* float64(n), x / n and x * n for an integer n.
Float(n) == [num |-> n, den |-> 1]
Div(x, n) == Quot(x.num, x.den * n)
Times(x, n) == Quot(x.num * n, x.den)

\* The comparisons of float64: every comparison with NaN is false.
IsNaN(x) == x.num = 0 /\ x.den = 0
Less(x, y) ==
  /\ ~IsNaN(x)
  /\ ~IsNaN(y)
  /\ IF x.den = 0 /\ y.den = 0 THEN x.num < y.num
     ELSE x.num * y.den < y.num * x.den
Greater(x, y) == Less(y, x)
AtLeast(x, y) == ~IsNaN(x) /\ ~IsNaN(y) /\ ~Less(x, y)

\* A parseProgress that reads out_time_ms as milliseconds.
parseProgressMillis(line, d) ==
  IF line.key = "out_time_ms"
  THEN IF line.num
       THEN LET timeSec == Div(Float(line.val), 1000) IN
            Times(Div(timeSec, d), 100)
       ELSE Float(0)
  ELSE Float(-1)

\* parseProgress(line, duration); out_time_ms is in microseconds.
parseProgress(line, d) ==
  IF line.key = "out_time_ms"
  THEN IF line.num
       THEN LET timeSec == Div(Float(line.val), 1000000) IN
            Times(Div(timeSec, d), 100)
       ELSE Float(0)
  ELSE Float(-1)

\* ------------------------------------------------------------------ strings
\* A string is the sequence of its characters.
Str(chars) == chars
EmptyStr == << >>

\* strings.ToLower, on the letters that occur in the model's inputs.
LowerRune(c) ==
  CASE c = "C" -> "c" [] c = "D" -> "d" [] c = "E" -> "e" [] c = "G" -> "g"
    [] c = "N" -> "n" [] c = "S" -> "s" [] OTHER -> c

ToLower(s) == [i \in 1..Len(s) |-> LowerRune(s[i])]

\* strings.Contains
Contains(s, substr) ==
  \E i \in 0..(Len(s) - Len(substr)) : SubSeq(s, i + 1, i + Len(substr)) = substr

\* ------------------------------------------------------------ probe outputs
MaxStreams == 2

\* One stream of ffprobe -show_streams -print_format json.  tagged tells
\* whether the stream object has a "tags" member (ffprobe prints it as an
\* object, {"language": ..., "title": ...}, and omits it when a stream has no
\* tags); language and title are the entries of that object.  The "index" of
\* a stream is its position in the listing, counted from 0.
Stream(ct, tg, lang, ttl, ch) ==
  [codec_type |-> ct, tagged |-> tg, language |-> lang, title |-> ttl,
   channels |-> ch]

LangEng == Str(<<"e", "n", "g">>)
LangENG == Str(<<"E", "N", "G">>)
LangUnd == Str(<<"u", "n", "d">>)
LangEnglish == Str(<<"e", "n", "g", "l", "i", "s", "h">>)
TitleEnglishStereo ==
  Str(<<"E", "n", "g", "l", "i", "s", "h", " ", "S", "t", "e", "r", "e", "o">>)
TitleDirectorCommentary ==
  Str(<<"D", "i", "r", "e", "c", "t", "o", "r", " ",
        "C", "o", "m", "m", "e", "n", "t", "a", "r", "y">>)

ChannelCounts == {1, 2}

StreamKinds ==
  {Stream("video", FALSE, EmptyStr, EmptyStr, 0),
   Stream("video", TRUE, LangUnd, EmptyStr, 0)}
    \cup {Stream("audio", FALSE, EmptyStr, EmptyStr, ch) : ch \in ChannelCounts}
    \cup {Stream("audio", TRUE, lang, EmptyStr, ch) :
            lang \in {LangEng, LangENG, LangUnd, LangEnglish}, ch \in ChannelCounts}
    \cup {Stream("audio", TRUE, LangUnd, ttl, ch) :
            ttl \in {TitleEnglishStereo, TitleDirectorCommentary},
            ch \in ChannelCounts}

StreamLists == UNION {[1..n -> StreamKinds] : n \in 0..MaxStreams}

\* What cmd.Output() of the ffprobe of getEnglishAudioStream gives: an error,
\* or the listing of the streams of the input.
Listings ==
  {[ok |-> FALSE, streams |-> << >>]} \cup {[ok |-> TRUE, streams |-> ss] : ss \in StreamLists}

\* json.Unmarshal(output, &probeOutput): StreamInfo.Language is a string field
\* with the tag json:"tags", and the "tags" member of a stream is a JSON object,
\* which does not decode into a string: Unmarshal leaves the field empty and
\* returns an UnmarshalTypeError.  Without a "tags" member the field is empty.
UnmarshalErr(streams) == \E i \in 1..Len(streams) : streams[i].tagged

StreamInfo(streams, i) ==
  [Index |-> i - 1, CodecType |-> streams[i].codec_type, Language |-> EmptyStr]

Unmarshal(streams) == [i \in 1..Len(streams) |-> StreamInfo(streams, i)]

\* The (int, error) a function returns; msg is the text of the error.
Ok(n) == [index |-> n, err |-> FALSE, msg |-> "nil"]
Err(text) == [index |-> 0, err |-> TRUE, msg |-> text]

IsEnglishAudio(stream) ==
  stream.CodecType = "audio" /\ Contains(ToLower(stream.Language), LangEng)

IsAudio(stream) == stream.CodecType = "audio"

\* The positions a pass over probeOutput.Streams returns at, and the one it
\* reaches first.
EnglishAudioStreams(Streams) == {i \in 1..Len(Streams) : IsEnglishAudio(Streams[i])}
AudioStreams(Streams) == {i \in 1..Len(Streams) : IsAudio(Streams[i])}
FirstStream(hits) == CHOOSE i \in hits : \A h \in hits : i <= h

getEnglishAudioStream(out) ==
  IF ~out.ok THEN Err("failed to get streams")
  ELSE IF UnmarshalErr(out.streams) THEN Err("failed to parse ffprobe output")
  ELSE LET Streams == Unmarshal(out.streams) IN
       IF EnglishAudioStreams(Streams) # {}
       THEN Ok(Streams[FirstStream(EnglishAudioStreams(Streams))].Index)
       ELSE IF AudioStreams(Streams) # {}
       THEN Ok(Streams[FirstStream(AudioStreams(Streams))].Index)
       ELSE Err("no suitable audio stream found")

\* What the ffprobe of getDuration and strconv.ParseFloat give: an error, or
\* the duration in seconds.
ProbeOutputs ==
  {[ok |-> FALSE, val |-> 0]} \cup {[ok |-> TRUE, val |-> v] : v \in {-5, 0, 10}}

getDuration(out) ==
  IF out.ok THEN [duration |-> out.val, err |-> FALSE]
  ELSE [duration |-> 0, err |-> TRUE]

VARIABLES
  pc,            \* pc[j]: where the call OptimizeMedia of job j stands
  key,           \* key[j]: params.InputFile of job j
  result,        \* result[j]: the OptimizationResult returned
  procs,         \* activeProcesses.procs: key -> the job whose cmd is stored
  lockHolder,    \* activeProcesses.Mutex: the job holding it across a wait
  proc,          \* proc[j]: the OS process of job j's cmd
  pending,       \* pending[j]: signal sent to the live process, not yet acted on
  procState,     \* procState[j]: cmd.ProcessState
  helper,        \* helper[j]: the goroutine of CleanupProcess waiting on cmd j
  waitErr,       \* waitErr[j]: err of cmd.Wait() in OptimizeMedia
  files,         \* the file system
  duration,      \* duration[j]: result of getDuration
  feed,          \* feed[j]: lines of the progress file the tailer has not finished with
  tailer,        \* tailer[j]: the progress goroutine
  lastProgress,  \* lastProgress[j]
  stalled,       \* stalled[j]: time.Since(lastProgressTime) > progressStallTimeout
  graceExpired,  \* the timer of the select in CleanupProcess has fired
  \* observations of the run, written by no code
  termRequested, \* SIGTERM was sent to cmd j
  stallFired,    \* the stall branch of the tailer of job j was taken
  killSent,      \* Process.Kill was called on cmd j
  cleanedBy,     \* cleanedBy[j]: the job whose CleanupProcess signalled cmd j
  exitedInGrace, \* the target of the select exited before the grace timer fired
  lastDelivered, \* the last sample passed to OnProgress of job j
  \* the probes of one call, in ControlSpec
  listing,       \* the output of the ffprobe of getEnglishAudioStream
  probe,         \* the output of the ffprobe of getDuration
  selection,     \* audioStreamIndex and the err of getEnglishAudioStream
  \* the stderr goroutine, in RunSpec
  errorLog,      \* errorLog[j]: the stderr lines of job j passed to logError
  \* the names of the temporary files, in NamingSpec
  clock,         \* what time.Now().UnixNano() returns
  tempStamp,     \* tempStamp[j]: the %d of tempOutput, "temp_%d<ext>"
  progressName,  \* progressName[j]: the * of "ffmpeg-progress-*.txt"
  reportStamp,   \* reportStamp[j]: the %d of reportFile, "ffreport_%d.log"
  \* NewDefaultParams, in ParamsSpec
  inputFile,     \* the argument of NewDefaultParams
  tempRoot,      \* what os.TempDir() returns
  params,        \* the OptimizationParams returned
  \* ExecuteRebuild, in RebuildSpec
  linux,         \* isLinux()
  rpc,           \* where the call of ExecuteRebuild stands
  ran,           \* the steps it has run, each with its outcome
  rresult,       \* the RebuildResult returned
  polls,         \* iterations of the loop of the waitForStatus in progress
  status         \* status, err of the last sm.getStatus()

vars ==
  << pc, key, result, procs, lockHolder, proc, pending, procState, helper,
     waitErr, files, duration, feed, tailer, lastProgress, stalled,
     graceExpired, termRequested, stallFired, killSent, cleanedBy,
     exitedInGrace, lastDelivered, listing, probe, selection, errorLog,
     clock, tempStamp, progressName, reportStamp, inputFile, tempRoot,
     params, linux, rpc, ran, rresult, polls, status >>

jobVars == << pc, key, result, waitErr, duration >>
regVars == << procs, lockHolder >>
procVars == << proc, pending, procState >>
tailVars == << feed, tailer, lastProgress, stalled, lastDelivered, stallFired >>
sigVars == << termRequested, killSent, cleanedBy, exitedInGrace, helper, graceExpired >>
ctlVars == << listing, probe, selection >>
nameVars == << clock, tempStamp, progressName, reportStamp >>
paramVars == << inputFile, tempRoot, params >>
rebuildVars == << linux, rpc, ran, rresult, polls, status >>
toolVars == << paramVars, rebuildVars >>
detailVars == << ctlVars, errorLog, nameVars, toolVars >>

\* (string, error) of getStatus before its first call.
NoStatus == [text |-> << >>, err |-> FALSE]

\* NewDefaultParams and ExecuteRebuild have not been called.
NoParams == [InputFile |-> << >>, OutputFile |-> << >>, MemoryLimit |-> << >>,
             TempDir |-> << >>]

NoTool ==
  /\ inputFile = << >>
  /\ tempRoot = << >>
  /\ params = NoParams
  /\ linux = FALSE
  /\ rpc = "idle"
  /\ ran = << >>
  /\ rresult = "none"
  /\ polls = 0
  /\ status = NoStatus

Zombies == {"exit0", "exit1", "signaled"}
Live(j) == proc[j] = "running"
Returned(j) == pc[j] = "returned"

\* Before line 260 has run.
NotSelected == [done |-> FALSE, index |-> 0, err |-> FALSE, msg |-> "nil"]

Init ==
  /\ pc = [j \in Jobs |-> "idle"]
  /\ key = [j \in Jobs |-> None]
  /\ result = [j \in Jobs |-> "none"]
  /\ procs = [k \in Keys |-> None]
  /\ lockHolder = None
  /\ proc = [j \in Jobs |-> "none"]
  /\ pending = [j \in Jobs |-> "none"]
  /\ procState = [j \in Jobs |-> "nil"]
  /\ helper = [j \in Jobs |-> "none"]
  /\ waitErr = [j \in Jobs |-> FALSE]
  /\ files = [p \in Paths |-> Absent]
  /\ duration = [j \in Jobs |-> None]
  /\ feed = [j \in Jobs |-> << >>]
  /\ tailer = [j \in Jobs |-> "off"]
  /\ lastProgress = [j \in Jobs |-> Float(0)]
  /\ stalled = [j \in Jobs |-> FALSE]
  /\ graceExpired = FALSE
  /\ termRequested = [j \in Jobs |-> FALSE]
  /\ stallFired = [j \in Jobs |-> FALSE]
  /\ killSent = [j \in Jobs |-> FALSE]
  /\ cleanedBy = [j \in Jobs |-> None]
  /\ exitedInGrace = FALSE
  /\ lastDelivered = [j \in Jobs |-> Float(-1)]
  /\ listing = [ok |-> FALSE, streams |-> << >>]
  /\ probe = [ok |-> FALSE, val |-> 0]
  /\ selection = NotSelected
  /\ errorLog = [j \in Jobs |-> {}]
  /\ clock = 1
  /\ tempStamp = [j \in Jobs |-> None]
  /\ progressName = [j \in Jobs |-> None]
  /\ reportStamp = [j \in Jobs |-> None]
  /\ NoTool

\* ---------------------------------------------------------------- signals
\* cmd.Process.Signal / cmd.Process.Kill: the signal reaches the process only
\* while it lives; SIGKILL is never replaced by a later SIGTERM.
Signalled(j, sig) ==
  IF Live(j) /\ pending[j] # "kill" THEN [pending EXCEPT ![j] = sig] ELSE pending

\* ------------------------------------------------------------ OptimizeMedia
\* The progress goroutine of job j ends: its captured variables and the
\* lines it has not read are no longer part of the state.
TailerEnds(j, how) ==
  /\ tailer' = [tailer EXCEPT ![j] = how]
  /\ feed' = [feed EXCEPT ![j] = << >>]
  /\ lastProgress' = [lastProgress EXCEPT ![j] = Float(0)]
  /\ stalled' = [stalled EXCEPT ![j] = FALSE]
  /\ lastDelivered' = [lastDelivered EXCEPT ![j] = Float(-1)]

\* A return of OptimizeMedia, with the file system its removals and its
\* deferred os.Remove(progressFile.Name()) leave.
Return(j, r, fs) ==
  /\ pc' = [pc EXCEPT ![j] = "returned"]
  /\ result' = [result EXCEPT ![j] = r]
  /\ files' = fs

\* The deferred progressFile.Close(): the next ReadString of a tailer that is
\* between two lines fails and the goroutine ends (err != nil, break); a
\* tailer that holds a line still has its callback to make.
CloseProgressFile(j) ==
  IF tailer[j] = "reading"
  THEN TailerEnds(j, "stopped")
  ELSE UNCHANGED << tailer, feed, lastProgress, stalled, lastDelivered >>

\* Keys are numbered in the order of their first use.
FreshKey(k) == \A h \in Keys : h < k => \E i \in Jobs : key[i] = h

\* A Call that removes the registry entry of its input before it looks at
\* the input file.
CallCleanupFirst(j, k, ok) ==
  /\ pc[j] = "idle"
  /\ j > 1 => pc[j - 1] # "idle"
  /\ FreshKey(k)
  /\ key' = [key EXCEPT ![j] = k]
  /\ procs' = [procs EXCEPT ![k] = None]
  /\ IF ok
     THEN /\ pc' = [pc EXCEPT ![j] = "cleanup"]
          /\ UNCHANGED << result, files >>
     ELSE Return(j, "InputError", files)
  /\ UNCHANGED << waitErr, duration, lockHolder, procVars, tailVars, sigVars >>
  /\ UNCHANGED detailVars

\* A caller submits a job for input k; os.Stat(params.InputFile) and
\* os.MkdirAll(params.TempDir).  Jobs are numbered in the order of their calls.
Call(j, k, ok) ==
  /\ pc[j] = "idle"
  /\ j > 1 => pc[j - 1] # "idle"
  /\ FreshKey(k)
  /\ key' = [key EXCEPT ![j] = k]
  /\ IF ok
     THEN /\ pc' = [pc EXCEPT ![j] = "cleanup"]
          /\ UNCHANGED << result, files >>
     ELSE Return(j, "InputError", files)
  /\ UNCHANGED << waitErr, duration, regVars, procVars, tailVars, sigVars >>
  /\ UNCHANGED detailVars

\* getEnglishAudioStream (its error is logged and replaced by index 0),
\* getDuration, getFileSize, os.CreateTemp of the progress file, and then
\* activeProcesses.Lock(); procs[InputFile] = cmd; Unlock().
Prepare(j, ok, d) ==
  /\ pc[j] = "prepare"
  /\ IF ok
     THEN /\ lockHolder = None
          /\ pc' = [pc EXCEPT ![j] = "start"]
          /\ duration' = [duration EXCEPT ![j] = d]
          /\ files' = [files EXCEPT ![ProgressFile(j)] = Content("present", j)]
          /\ procs' = [procs EXCEPT ![key[j]] = j]
          /\ UNCHANGED result
     ELSE /\ Return(j, "ProbeError", files)
          /\ UNCHANGED << duration, procs >>
  /\ UNCHANGED << key, waitErr, lockHolder, procVars, tailVars, sigVars >>
  /\ UNCHANGED detailVars

\* A build whose engine is handed the destination path itself.
EngineOutputArgFinal(j) == OutputFile(key[j])

\* The last argument of the engine's command line: where it writes its output.
EngineOutputArg(j) == TempOutput(j)

\* cmd.StderrPipe(), cmd.Start(), then the two goroutines are started.
Start(j, ok) ==
  /\ pc[j] = "start"
  /\ IF ok
     THEN /\ pc' = [pc EXCEPT ![j] = "wait"]
          /\ proc' = [proc EXCEPT ![j] = "running"]
          /\ files' = [files EXCEPT ![EngineOutputArg(j)] = Content("partial", j),
                                    ![ReportFile(j)] = Content("present", j)]
          /\ tailer' = [tailer EXCEPT ![j] = "reading"]
          /\ UNCHANGED result
     ELSE /\ Return(j, "SpawnError", Remove(files, ProgressFile(j)))
          /\ UNCHANGED << proc, tailer >>
  /\ UNCHANGED << key, waitErr, duration, regVars, pending, procState,
                  feed, lastProgress, stalled, lastDelivered, stallFired,
                  sigVars >>
  /\ UNCHANGED detailVars

ExitedState(p) == IF p = "signaled" THEN "signaled" ELSE "exited"

\* err = cmd.Wait() in OptimizeMedia.  The waiter that reaps the process gets
\* its status; a waiter that finds it reaped by the other gets an error, and
\* its unsynchronised write of cmd.ProcessState may or may not win.
Wait(j, keep) ==
  /\ pc[j] = "wait"
  /\ \/ /\ proc[j] \in Zombies
        /\ keep
        /\ proc' = [proc EXCEPT ![j] = "reaped"]
        /\ procState' = [procState EXCEPT ![j] = ExitedState(proc[j])]
        /\ waitErr' = [waitErr EXCEPT ![j] = (proc[j] # "exit0")]
     \/ /\ proc[j] = "reaped"
        /\ keep \/ procState[j] # "nil"
        /\ procState' = [procState EXCEPT ![j] = IF keep THEN @ ELSE "nil"]
        /\ waitErr' = [waitErr EXCEPT ![j] = TRUE]
        /\ UNCHANGED proc
  /\ pc' = [pc EXCEPT ![j] = "finish"]
  /\ UNCHANGED << key, result, duration, regVars, pending, files,
                  tailVars, sigVars >>
  /\ UNCHANGED detailVars

\* A Finish whose rename-failure return leaves the temporary output behind.
FinishKeepTemp(j, renameOk) ==
  /\ pc[j] = "finish"
  /\ lockHolder = None
  /\ procs' = [procs EXCEPT ![key[j]] = None]
  /\ IF waitErr[j]
     THEN /\ renameOk
          /\ Return(j, "EngineError",
                    Remove(Remove(files, TempOutput(j)), ProgressFile(j)))
     ELSE IF renameOk /\ files[TempOutput(j)] # Absent
     THEN Return(j, "Success",
                 Remove(Remove(Remove(
                   [files EXCEPT ![OutputFile(key[j])] = files[TempOutput(j)]],
                   TempOutput(j)), ReportFile(j)), ProgressFile(j)))
     ELSE Return(j, "CommitError", Remove(files, ProgressFile(j)))
  /\ CloseProgressFile(j)
  /\ UNCHANGED << key, waitErr, duration, lockHolder, procVars, stallFired, sigVars >>
  /\ UNCHANGED detailVars

\* A Finish that takes a line of stderr containing "error" for a failure of
\* the engine.
FinishOnStderr(j, renameOk) ==
  /\ pc[j] = "finish"
  /\ lockHolder = None
  /\ procs' = [procs EXCEPT ![key[j]] = None]
  /\ IF waitErr[j] \/ errorLog[j] # {}
     THEN /\ renameOk
          /\ Return(j, "EngineError",
                    Remove(Remove(files, TempOutput(j)), ProgressFile(j)))
     ELSE IF renameOk /\ files[TempOutput(j)] # Absent
     THEN Return(j, "Success",
                 Remove(Remove(Remove(
                   [files EXCEPT ![OutputFile(key[j])] = files[TempOutput(j)]],
                   TempOutput(j)), ReportFile(j)), ProgressFile(j)))
     ELSE Return(j, "CommitError",
                 Remove(Remove(files, TempOutput(j)), ProgressFile(j)))
  /\ CloseProgressFile(j)
  /\ UNCHANGED << key, waitErr, duration, lockHolder, procVars, stallFired, sigVars >>
  /\ UNCHANGED detailVars

\* After cmd.Wait(): activeProcesses.Lock(); delete(procs, InputFile);
\* Unlock(); then the error return, or os.Rename and its two outcomes; with
\* the deferred Close and Remove of the progress file.
Finish(j, renameOk) ==
  /\ pc[j] = "finish"
  /\ lockHolder = None
  /\ procs' = [procs EXCEPT ![key[j]] = None]
  /\ IF waitErr[j]
     THEN /\ renameOk
          /\ Return(j, "EngineError",
                    Remove(Remove(files, TempOutput(j)), ProgressFile(j)))
     ELSE IF renameOk /\ files[TempOutput(j)] # Absent
     THEN Return(j, "Success",
                 Remove(Remove(Remove(
                   [files EXCEPT ![OutputFile(key[j])] = files[TempOutput(j)]],
                   TempOutput(j)), ReportFile(j)), ProgressFile(j)))
     ELSE Return(j, "CommitError",
                 Remove(Remove(files, TempOutput(j)), ProgressFile(j)))
  /\ CloseProgressFile(j)
  /\ UNCHANGED << key, waitErr, duration, lockHolder, procVars, stallFired, sigVars >>
  /\ UNCHANGED detailVars

\* ----------------------------------------------------------- CleanupProcess
\* The cleanup in its select, and the job whose cmd it found in the registry.
InSelect(c) == pc[c] = "select"
Target(c) == procs[key[c]]

\* A process exit that the select of a cleanup sees before its timer fires.
SeenInGrace(t) == \E c \in Jobs : InSelect(c) /\ Target(c) = t /\ ~graceExpired

\* A CleanupBegin that empties the registry when its key has no entry.
CleanupBeginClearAll(c) ==
  /\ pc[c] = "cleanup"
  /\ lockHolder = None
  /\ LET t == procs[key[c]] IN
     IF t # None /\ proc[t] # "none"
     THEN /\ pc' = [pc EXCEPT ![c] = "select"]
          /\ lockHolder' = c
          /\ termRequested' = [termRequested EXCEPT ![t] = TRUE]
          /\ pending' = Signalled(t, "term")
          /\ helper' = [helper EXCEPT ![t] = "waiting"]
          /\ cleanedBy' = [cleanedBy EXCEPT ![t] = c]
          /\ exitedInGrace' = ~Live(t)
          /\ UNCHANGED procs
     ELSE /\ pc' = [pc EXCEPT ![c] = "prepare"]
          /\ procs' = [k \in Keys |-> None]
          /\ UNCHANGED << lockHolder, termRequested, pending, helper, cleanedBy,
                          exitedInGrace >>
  /\ UNCHANGED << key, result, waitErr, duration, proc, procState,
                  files, tailVars, killSent, graceExpired >>
  /\ UNCHANGED detailVars

\* CleanupProcess(params.InputFile) up to its select: Lock, the map lookup,
\* the cmd.Process test, Signal(SIGTERM) and the start of the helper goroutine.
\* Without an entry, or with an entry whose process was never started, it
\* runs to its end: delete and Unlock.
CleanupBegin(c) ==
  /\ pc[c] = "cleanup"
  /\ lockHolder = None
  /\ LET t == Target(c) IN
     IF t # None /\ proc[t] # "none"
     THEN /\ pc' = [pc EXCEPT ![c] = "select"]
          /\ lockHolder' = c
          /\ termRequested' = [termRequested EXCEPT ![t] = TRUE]
          /\ pending' = Signalled(t, "term")
          /\ helper' = [helper EXCEPT ![t] = "waiting"]
          /\ cleanedBy' = [cleanedBy EXCEPT ![t] = c]
          /\ exitedInGrace' = ~Live(t)
          /\ UNCHANGED procs
     ELSE /\ pc' = [pc EXCEPT ![c] = "prepare"]
          /\ procs' = [procs EXCEPT ![key[c]] = None]
          /\ UNCHANGED << lockHolder, termRequested, pending, helper, cleanedBy,
                          exitedInGrace >>
  /\ UNCHANGED << key, result, waitErr, duration, proc, procState,
                  files, tailVars, killSent, graceExpired >>
  /\ UNCHANGED detailVars

\* go func() { done <- cmd.Wait() }(): the Wait of the helper returns.
HelperWait(t, keep) ==
  /\ helper[t] = "waiting"
  /\ \/ /\ proc[t] \in Zombies
        /\ keep
        /\ proc' = [proc EXCEPT ![t] = "reaped"]
        /\ procState' = [procState EXCEPT ![t] = ExitedState(proc[t])]
     \/ /\ proc[t] = "reaped"
        /\ keep \/ procState[t] # "nil"
        /\ procState' = [procState EXCEPT ![t] = IF keep THEN @ ELSE "nil"]
        /\ UNCHANGED proc
  /\ helper' = [helper EXCEPT ![t] = "sending"]
  /\ UNCHANGED << jobVars, regVars, pending, files, tailVars, termRequested, killSent,
                  cleanedBy, exitedInGrace, graceExpired >>
  /\ UNCHANGED detailVars

\* An end of CleanupProcess without the deferred Unlock.
CleanupEndNoUnlock(c) ==
  /\ procs' = [procs EXCEPT ![key[c]] = None]
  /\ lockHolder' = lockHolder
  /\ graceExpired' = FALSE
  /\ exitedInGrace' = FALSE
  /\ pc' = [pc EXCEPT ![c] = "prepare"]

\* The end of CleanupProcess: delete(procs, inputFile) and the deferred Unlock.
CleanupEnd(c) ==
  /\ procs' = [procs EXCEPT ![key[c]] = None]
  /\ lockHolder' = None
  /\ graceExpired' = FALSE
  /\ exitedInGrace' = FALSE
  /\ pc' = [pc EXCEPT ![c] = "prepare"]

\* case <-done: the helper hands over the result of its Wait.
SelectDone(c) ==
  /\ InSelect(c)
  /\ helper[Target(c)] = "sending"
  /\ helper' = [helper EXCEPT ![Target(c)] = "finished"]
  /\ CleanupEnd(c)
  /\ UNCHANGED << key, result, waitErr, duration, procVars, files,
                  tailVars, termRequested, killSent, cleanedBy >>
  /\ UNCHANGED detailVars

\* A select that takes its kill branch without waiting for the timer.
SelectTimeoutNoGrace(c) ==
  /\ InSelect(c)
  /\ killSent' = [killSent EXCEPT ![Target(c)] = TRUE]
  /\ pending' = Signalled(Target(c), "kill")
  /\ CleanupEnd(c)
  /\ UNCHANGED << key, result, waitErr, duration, proc, procState, files,
                  tailVars, termRequested, cleanedBy, helper >>
  /\ UNCHANGED detailVars

\* case <-time.After(5 * time.Second): cmd.Process.Kill()
SelectTimeout(c) ==
  /\ InSelect(c)
  /\ graceExpired
  /\ killSent' = [killSent EXCEPT ![Target(c)] = TRUE]
  /\ pending' = Signalled(Target(c), "kill")
  /\ CleanupEnd(c)
  /\ UNCHANGED << key, result, waitErr, duration, proc, procState, files,
                  tailVars, termRequested, cleanedBy, helper >>
  /\ UNCHANGED detailVars

\* ------------------------------------------------------------------ engine
\* The engine appends a line to the file named by -progress.
EngineWrite(j, l) ==
  /\ Live(j)
  /\ tailer[j] \in {"reading", "calling"}
  /\ Len(feed[j]) < MaxFeed
  /\ feed' = [feed EXCEPT ![j] = Append(@, l)]
  /\ UNCHANGED << jobVars, regVars, procVars, files, tailer, lastProgress, stalled,
                  lastDelivered, stallFired, sigVars >>
  /\ UNCHANGED detailVars

\* The engine exits by itself: status 0 with its output complete, or an error
\* status.  A pending SIGTERM does not prevent it.
EngineExit(j, st) ==
  /\ Live(j)
  /\ proc' = [proc EXCEPT ![j] = st]
  /\ pending' = [pending EXCEPT ![j] = "none"]
  /\ files' = IF st = "exit0"
              THEN [files EXCEPT ![EngineOutputArg(j)] = Content("complete", j)]
              ELSE files
  /\ exitedInGrace' = (exitedInGrace \/ SeenInGrace(j))
  /\ UNCHANGED << jobVars, regVars, procState, tailVars, termRequested, killSent,
                  cleanedBy, helper, graceExpired >>
  /\ UNCHANGED detailVars

\* The process dies of the signal sent to it.
EngineKilled(j) ==
  /\ Live(j)
  /\ pending[j] # "none"
  /\ proc' = [proc EXCEPT ![j] = "signaled"]
  /\ pending' = [pending EXCEPT ![j] = "none"]
  /\ exitedInGrace' = (exitedInGrace \/ SeenInGrace(j))
  /\ UNCHANGED << jobVars, regVars, procState, files, tailVars, termRequested,
                  killSent, cleanedBy, helper, graceExpired >>
  /\ UNCHANGED detailVars

\* ------------------------------------------------------- progress goroutine
\* The progress file is open until the deferred progressFile.Close().
FileOpen(j) == ~Returned(j)

\* The sample of the line the tailer holds.
Sample(j) == parseProgress(Head(feed[j]), duration[j])

\* Whether the loop passes a parsed sample to params.OnProgress.
Surfaced(j, progress) == AtLeast(progress, Float(0))

\* A tailer that starts each callback in a goroutine of its own and reads on.
TailerReadAsync(j) ==
  /\ tailer[j] = "reading"
  /\ FileOpen(j)
  /\ feed[j] # << >>
  /\ LET progress == Sample(j) IN
     IF ~Surfaced(j, progress)
     THEN /\ feed' = [feed EXCEPT ![j] = Tail(@)]
          /\ UNCHANGED << tailer, lastProgress, stalled, lastDelivered, stallFired,
                          termRequested, pending >>
     ELSE IF Greater(progress, lastProgress[j])
     THEN /\ lastProgress' = [lastProgress EXCEPT ![j] = progress]
          /\ stalled' = [stalled EXCEPT ![j] = FALSE]
          /\ lastDelivered' = [lastDelivered EXCEPT ![j] = progress]
          /\ feed' = [feed EXCEPT ![j] = Tail(@)]
          /\ UNCHANGED << tailer, stallFired, termRequested, pending >>
     ELSE IF stalled[j]
     THEN /\ stallFired' = [stallFired EXCEPT ![j] = TRUE]
          /\ termRequested' = [termRequested EXCEPT ![j] = TRUE]
          /\ pending' = Signalled(j, "term")
          /\ TailerEnds(j, "stalled")
     ELSE /\ tailer' = [tailer EXCEPT ![j] = "calling"]
          /\ UNCHANGED << feed, lastProgress, stalled, lastDelivered, stallFired,
                          termRequested, pending >>
  /\ UNCHANGED << jobVars, regVars, proc, procState, files,
                  killSent, cleanedBy, exitedInGrace, helper, graceExpired >>
  /\ UNCHANGED detailVars

\* One iteration up to the callback: ReadString, parseProgress, then the
\* lastProgress update or the stall branch (Signal(SIGTERM) and break).  A
\* line that is not surfaced is dropped; a surfaced one stays at the head of
\* feed until the callback has run.
TailerRead(j) ==
  /\ tailer[j] = "reading"
  /\ FileOpen(j)
  /\ feed[j] # << >>
  /\ LET progress == Sample(j) IN
     IF ~Surfaced(j, progress)
     THEN /\ feed' = [feed EXCEPT ![j] = Tail(@)]
          /\ UNCHANGED << tailer, lastProgress, stalled, lastDelivered, stallFired,
                          termRequested, pending >>
     ELSE IF Greater(progress, lastProgress[j])
     THEN /\ lastProgress' = [lastProgress EXCEPT ![j] = progress]
          /\ stalled' = [stalled EXCEPT ![j] = FALSE]
          /\ tailer' = [tailer EXCEPT ![j] = "calling"]
          /\ UNCHANGED << feed, lastDelivered, stallFired, termRequested, pending >>
     ELSE IF stalled[j]
     THEN /\ stallFired' = [stallFired EXCEPT ![j] = TRUE]
          /\ termRequested' = [termRequested EXCEPT ![j] = TRUE]
          /\ pending' = Signalled(j, "term")
          /\ TailerEnds(j, "stalled")
     ELSE /\ tailer' = [tailer EXCEPT ![j] = "calling"]
          /\ UNCHANGED << feed, lastProgress, stalled, lastDelivered, stallFired,
                          termRequested, pending >>
  /\ UNCHANGED << jobVars, regVars, proc, procState, files,
                  killSent, cleanedBy, exitedInGrace, helper, graceExpired >>
  /\ UNCHANGED detailVars

\* params.OnProgress(progress) for the line the goroutine holds, then back to
\* ReadString: on a file closed meanwhile that read fails and the goroutine ends.
TailerCall(j) ==
  /\ tailer[j] = "calling"
  /\ IF FileOpen(j)
     THEN /\ lastDelivered' = [lastDelivered EXCEPT ![j] = Sample(j)]
          /\ feed' = [feed EXCEPT ![j] = Tail(@)]
          /\ tailer' = [tailer EXCEPT ![j] = "reading"]
          /\ UNCHANGED << lastProgress, stalled >>
     ELSE TailerEnds(j, "stopped")
  /\ UNCHANGED << jobVars, regVars, procVars, files, stallFired, sigVars >>
  /\ UNCHANGED detailVars

\* io.EOF with cmd.ProcessState != nil && cmd.ProcessState.Exited(): break
TailerStop(j) ==
  /\ tailer[j] = "reading"
  /\ FileOpen(j)
  /\ feed[j] = << >>
  /\ procState[j] = "exited"
  /\ TailerEnds(j, "stopped")
  /\ UNCHANGED << jobVars, regVars, procVars, files, stallFired, sigVars >>
  /\ UNCHANGED detailVars

\* -------------------------------------------------------------------- time
\* A select whose helper is, or is about to be, ready to hand over.
Urgent == \E c \in Jobs : InSelect(c) /\ ~Live(Target(c))

Tailing(j) == tailer[j] \in {"reading", "calling"}

\* Five seconds have passed since the select of a CleanupProcess began.
GraceTimerFires ==
  /\ ~Urgent
  /\ \E c \in Jobs : InSelect(c)
  /\ ~graceExpired
  /\ graceExpired' = TRUE
  /\ UNCHANGED << jobVars, regVars, procVars, files, tailVars, termRequested, killSent,
                  cleanedBy, exitedInGrace, helper >>
  /\ UNCHANGED detailVars

\* More than five minutes have passed since lastProgressTime of job j.
StallWindowPasses(j) ==
  /\ Tailing(j)
  /\ Live(j) \/ feed[j] # << >>
  /\ ~stalled[j]
  /\ stalled' = [stalled EXCEPT ![j] = TRUE]
  /\ UNCHANGED << jobVars, regVars, procVars, files, feed, tailer, lastProgress,
                  lastDelivered, stallFired, sigVars >>
  /\ UNCHANGED detailVars

\* ----------------------------------------------------------- specification
Next ==
  \/ \E j \in Jobs, k \in Keys, ok \in BOOLEAN : Call(j, k, ok)
  \/ \E c \in Jobs : CleanupBegin(c)
  \/ \E t \in Jobs, keep \in BOOLEAN : HelperWait(t, keep)
  \/ \E c \in Jobs : SelectDone(c)
  \/ \E c \in Jobs : SelectTimeout(c)
  \/ \E j \in Jobs, ok \in BOOLEAN, d \in Durations : Prepare(j, ok, d)
  \/ \E j \in Jobs, ok \in BOOLEAN : Start(j, ok)
  \/ \E j \in Jobs, keep \in BOOLEAN : Wait(j, keep)
  \/ \E j \in Jobs, ok \in BOOLEAN : Finish(j, ok)
  \/ \E j \in Jobs, l \in EngineLines : EngineWrite(j, l)
  \/ \E j \in Jobs, st \in {"exit0", "exit1"} : EngineExit(j, st)
  \/ \E j \in Jobs : EngineKilled(j)
  \/ \E j \in Jobs : TailerRead(j)
  \/ \E j \in Jobs : TailerCall(j)
  \/ \E j \in Jobs : TailerStop(j)
  \/ GraceTimerFires
  \/ \E j \in Jobs : StallWindowPasses(j)

Spec == Init /\ [][Next]_vars

\* What the scheduler and the operating system guarantee: a goroutine that can
\* run does run, time passes, and a process sent SIGKILL dies.  Nothing obliges
\* a caller to submit a job, nor the engine to write, to exit or to obey SIGTERM.
Fairness ==
  /\ \A j \in Jobs :
       /\ WF_vars(CleanupBegin(j))
       /\ WF_vars(\E keep \in BOOLEAN : HelperWait(j, keep))
       /\ WF_vars(SelectDone(j) \/ SelectTimeout(j))
       /\ WF_vars(\E ok \in BOOLEAN, d \in Durations : Prepare(j, ok, d))
       /\ WF_vars(\E ok \in BOOLEAN : Start(j, ok))
       /\ WF_vars(\E keep \in BOOLEAN : Wait(j, keep))
       /\ WF_vars(\E ok \in BOOLEAN : Finish(j, ok))
       /\ WF_vars(TailerRead(j))
       /\ WF_vars(TailerCall(j))
       /\ WF_vars(TailerStop(j))
       /\ WF_vars(StallWindowPasses(j))
       /\ WF_vars(pending[j] = "kill" /\ EngineKilled(j))
  /\ WF_vars(GraceTimerFires)

FairSpec == Spec /\ Fairness

\* The calls, their cleanups and their processes without the progress
\* goroutine, which takes neither the registry lock nor part in cmd.Wait: the
\* engines write nothing and no stall window passes.
ReturnNext ==
  \/ \E j \in Jobs, k \in Keys, ok \in BOOLEAN : Call(j, k, ok)
  \/ \E c \in Jobs : CleanupBegin(c)
  \/ \E t \in Jobs, keep \in BOOLEAN : HelperWait(t, keep)
  \/ \E c \in Jobs : SelectDone(c)
  \/ \E c \in Jobs : SelectTimeout(c)
  \/ \E j \in Jobs, ok \in BOOLEAN, d \in Durations : Prepare(j, ok, d)
  \/ \E j \in Jobs, ok \in BOOLEAN : Start(j, ok)
  \/ \E j \in Jobs, keep \in BOOLEAN : Wait(j, keep)
  \/ \E j \in Jobs, ok \in BOOLEAN : Finish(j, ok)
  \/ \E j \in Jobs, st \in {"exit0", "exit1"} : EngineExit(j, st)
  \/ \E j \in Jobs : EngineKilled(j)
  \/ GraceTimerFires

\* The engines eventually exit.
EnginesExit ==
  \A j \in Jobs : WF_vars(\E st \in {"exit0", "exit1"} : EngineExit(j, st))

\* The goroutines of the calls and of the cleanups run, and time passes.
ReturnFairness ==
  /\ \A j \in Jobs :
       /\ WF_vars(CleanupBegin(j))
       /\ WF_vars(\E keep \in BOOLEAN : HelperWait(j, keep))
       /\ WF_vars(SelectDone(j) \/ SelectTimeout(j))
       /\ WF_vars(\E ok \in BOOLEAN, d \in Durations : Prepare(j, ok, d))
       /\ WF_vars(\E ok \in BOOLEAN : Start(j, ok))
       /\ WF_vars(\E keep \in BOOLEAN : Wait(j, keep))
       /\ WF_vars(\E ok \in BOOLEAN : Finish(j, ok))
  /\ WF_vars(GraceTimerFires)

ReturnSpec == Init /\ [][ReturnNext]_vars /\ ReturnFairness /\ EnginesExit

\* ------------------------------------------------------ one call in detail
\* The steps of OptimizeMedia between its CleanupProcess and cmd.Start, one
\* at a time and with the outputs of the two probes as inputs.  In Spec these
\* steps are the single action Prepare.
SupervisionVars ==
  << key, waitErr, regVars, procVars, tailVars, sigVars >>

\* audioStreamIndex, err := getEnglishAudioStream(params.InputFile); on an
\* error the error is logged and audioStreamIndex = 0.
SelectStream(j) ==
  /\ pc[j] = "prepare"
  /\ LET r == getEnglishAudioStream(listing) IN
     selection' = [done |-> TRUE, index |-> IF r.err THEN 0 ELSE r.index,
                   err |-> r.err, msg |-> r.msg]
  /\ pc' = [pc EXCEPT ![j] = "probe"]
  /\ UNCHANGED << result, duration, files, listing, probe, SupervisionVars >>
  /\ UNCHANGED << errorLog, nameVars, toolVars >>

\* A getDuration whose error is ignored: the job goes on with duration 0.
ProbeDurationLenient(j) ==
  /\ pc[j] = "probe"
  /\ duration' = [duration EXCEPT ![j] = getDuration(probe).duration]
  /\ pc' = [pc EXCEPT ![j] = "size"]
  /\ UNCHANGED << result, files, detailVars, SupervisionVars >>

\* duration, err := getDuration(params.InputFile); an error is returned.
ProbeDuration(j) ==
  /\ pc[j] = "probe"
  /\ LET r == getDuration(probe) IN
     IF r.err
     THEN /\ Return(j, "ProbeError", files)
          /\ UNCHANGED duration
     ELSE /\ duration' = [duration EXCEPT ![j] = r.duration]
          /\ pc' = [pc EXCEPT ![j] = "size"]
          /\ UNCHANGED << result, files >>
  /\ UNCHANGED << detailVars, SupervisionVars >>

\* getFileSize and os.CreateTemp, each with its error return, then
\* activeProcesses.Lock(); procs[InputFile] = cmd; Unlock().
Register(j, ok) ==
  /\ pc[j] = "size"
  /\ IF ok
     THEN /\ lockHolder = None
          /\ pc' = [pc EXCEPT ![j] = "start"]
          /\ files' = [files EXCEPT ![ProgressFile(j)] = Content("present", j)]
          /\ procs' = [procs EXCEPT ![key[j]] = j]
          /\ UNCHANGED result
     ELSE /\ Return(j, "ProbeError", files)
          /\ UNCHANGED procs
  /\ UNCHANGED << key, waitErr, duration, lockHolder, procVars, tailVars,
                  sigVars, detailVars >>

\* The call that is followed, and its input.
Caller == 1
Input == 1

ControlInit ==
  /\ pc = [j \in Jobs |-> "idle"]
  /\ key = [j \in Jobs |-> None]
  /\ result = [j \in Jobs |-> "none"]
  /\ procs = [k \in Keys |-> None]
  /\ lockHolder = None
  /\ proc = [j \in Jobs |-> "none"]
  /\ pending = [j \in Jobs |-> "none"]
  /\ procState = [j \in Jobs |-> "nil"]
  /\ helper = [j \in Jobs |-> "none"]
  /\ waitErr = [j \in Jobs |-> FALSE]
  /\ files = [p \in Paths |-> Absent]
  /\ duration = [j \in Jobs |-> None]
  /\ feed = [j \in Jobs |-> << >>]
  /\ tailer = [j \in Jobs |-> "off"]
  /\ lastProgress = [j \in Jobs |-> Float(0)]
  /\ stalled = [j \in Jobs |-> FALSE]
  /\ graceExpired = FALSE
  /\ termRequested = [j \in Jobs |-> FALSE]
  /\ stallFired = [j \in Jobs |-> FALSE]
  /\ killSent = [j \in Jobs |-> FALSE]
  /\ cleanedBy = [j \in Jobs |-> None]
  /\ exitedInGrace = FALSE
  /\ lastDelivered = [j \in Jobs |-> Float(-1)]
  /\ listing \in Listings
  /\ probe \in ProbeOutputs
  /\ selection = NotSelected
  /\ errorLog = [j \in Jobs |-> {}]
  /\ clock = 1
  /\ tempStamp = [j \in Jobs |-> None]
  /\ progressName = [j \in Jobs |-> None]
  /\ reportStamp = [j \in Jobs |-> None]
  /\ NoTool

ControlNext ==
  \/ \E ok \in BOOLEAN : Call(Caller, Input, ok)
  \/ CleanupBegin(Caller)
  \/ SelectStream(Caller)
  \/ ProbeDuration(Caller)
  \/ \E ok \in BOOLEAN : Register(Caller, ok)
  \/ \E ok \in BOOLEAN : Start(Caller, ok)

ControlSpec == ControlInit /\ [][ControlNext]_vars

\* --------------------------------------------------- one job while it runs
\* RunSpec follows one job from the return of cmd.Start to the return of
\* OptimizeMedia.  Its inputs are the duration getDuration returned, the lines
\* the engine has written to its progress file and the engine's stderr.
MaxLines == 2

\* Lines of ffmpeg -progress: an elapsed time within the duration, one beyond
\* it, a negative one, "out_time_ms=N/A", another key, and an empty line.
ProgressLines ==
  EngineLines \cup
    { Line("out_time_ms", TRUE, 15000000), Line("out_time_ms", TRUE, -5000000),
      Line("", FALSE, 0) }

Feeds == UNION {[1..n -> ProgressLines] : n \in 0..MaxLines}

RunDurations == {10, 30}

StderrLines ==
  { Str(<<"f", "r", "a", "m", "e", "=", "1">>),
    Str(<<"E", "r", "r", "o", "r", " ", "w", "h", "i", "l", "e", " ",
          "d", "e", "c", "o", "d", "i", "n", "g">>) }

\* The engine writes a line to its stderr and the stderr goroutine scans it:
\* logInfo, and logError if the line contains "error".
EngineStderr(j, text) ==
  /\ Live(j)
  /\ errorLog' = [errorLog EXCEPT ![j] =
                   IF Contains(ToLower(text), Str(<<"e", "r", "r", "o", "r">>))
                   THEN @ \cup {text} ELSE @]
  /\ UNCHANGED << jobVars, regVars, procVars, files, tailVars, sigVars, ctlVars,
                  nameVars, toolVars >>

\* The state cmd.Start leaves when the call is the only one.
RunInit ==
  /\ pc = [j \in Jobs |-> IF j = Caller THEN "wait" ELSE "idle"]
  /\ key = [j \in Jobs |-> IF j = Caller THEN Input ELSE None]
  /\ result = [j \in Jobs |-> "none"]
  /\ procs = [k \in Keys |-> IF k = Input THEN Caller ELSE None]
  /\ lockHolder = None
  /\ proc = [j \in Jobs |-> IF j = Caller THEN "running" ELSE "none"]
  /\ pending = [j \in Jobs |-> "none"]
  /\ procState = [j \in Jobs |-> "nil"]
  /\ helper = [j \in Jobs |-> "none"]
  /\ waitErr = [j \in Jobs |-> FALSE]
  /\ files = [p \in Paths |->
               IF p = TempOutput(Caller) THEN Content("partial", Caller)
               ELSE IF p \in {ProgressFile(Caller), ReportFile(Caller)}
               THEN Content("present", Caller)
               ELSE Absent]
  /\ \E d \in RunDurations : duration = [j \in Jobs |-> IF j = Caller THEN d ELSE None]
  /\ \E f \in Feeds : feed = [j \in Jobs |-> IF j = Caller THEN f ELSE << >>]
  /\ tailer = [j \in Jobs |-> IF j = Caller THEN "reading" ELSE "off"]
  /\ lastProgress = [j \in Jobs |-> Float(0)]
  /\ stalled = [j \in Jobs |-> FALSE]
  /\ graceExpired = FALSE
  /\ termRequested = [j \in Jobs |-> FALSE]
  /\ stallFired = [j \in Jobs |-> FALSE]
  /\ killSent = [j \in Jobs |-> FALSE]
  /\ cleanedBy = [j \in Jobs |-> None]
  /\ exitedInGrace = FALSE
  /\ lastDelivered = [j \in Jobs |-> Float(-1)]
  /\ listing = [ok |-> FALSE, streams |-> << >>]
  /\ probe = [ok |-> FALSE, val |-> 0]
  /\ selection = NotSelected
  /\ errorLog = [j \in Jobs |-> {}]
  /\ clock = 1
  /\ tempStamp = [j \in Jobs |-> None]
  /\ progressName = [j \in Jobs |-> None]
  /\ reportStamp = [j \in Jobs |-> None]
  /\ NoTool

RunNext ==
  \/ \E text \in StderrLines : EngineStderr(Caller, text)
  \/ \E st \in {"exit0", "exit1"} : EngineExit(Caller, st)
  \/ EngineKilled(Caller)
  \/ \E keep \in BOOLEAN : Wait(Caller, keep)
  \/ \E ok \in BOOLEAN : Finish(Caller, ok)
  \/ TailerRead(Caller)
  \/ TailerCall(Caller)
  \/ TailerStop(Caller)
  \/ StallWindowPasses(Caller)

RunSpec == RunInit /\ [][RunNext]_vars

\* ------------------------------------------- the names of temporary files
\* NamingSpec follows the calls up to the point where each has named its
\* three temporary files in params.TempDir.  The clock is what successive
\* calls of time.Now().UnixNano() return: it never goes back, and two calls
\* may read the same value.
MaxClock == 3
Suffixes == 1..NumJobs

Tick ==
  /\ clock < MaxClock
  /\ clock' = clock + 1
  /\ UNCHANGED << jobVars, regVars, procVars, files, tailVars, sigVars, ctlVars,
                  errorLog, tempStamp, progressName, reportStamp, toolVars >>

\* tempOutput := filepath.Join(params.TempDir, fmt.Sprintf("temp_%d%s",
\* time.Now().UnixNano(), filepath.Ext(sanitizedName)))
NameTempOutput(j) ==
  /\ pc[j] = "prepare"
  /\ tempStamp' = [tempStamp EXCEPT ![j] = clock]
  /\ pc' = [pc EXCEPT ![j] = "createtemp"]
  /\ UNCHANGED << key, result, waitErr, duration, regVars, procVars, files,
                  tailVars, sigVars, ctlVars, errorLog, clock, progressName,
                  reportStamp, toolVars >>

\* os.CreateTemp(params.TempDir, "ffmpeg-progress-*.txt"): the file is
\* created with O_EXCL under a random name no existing file has.
CreateProgressFile(j, n) ==
  /\ pc[j] = "createtemp"
  /\ \A i \in Jobs : progressName[i] # n
  /\ progressName' = [progressName EXCEPT ![j] = n]
  /\ pc' = [pc EXCEPT ![j] = "namereport"]
  /\ UNCHANGED << key, result, waitErr, duration, regVars, procVars, files,
                  tailVars, sigVars, ctlVars, errorLog, clock, tempStamp,
                  reportStamp, toolVars >>

\* reportFile := filepath.Join(params.TempDir, fmt.Sprintf("ffreport_%d.log",
\* time.Now().UnixNano()))
NameReportFile(j) ==
  /\ pc[j] = "namereport"
  /\ reportStamp' = [reportStamp EXCEPT ![j] = clock]
  /\ pc' = [pc EXCEPT ![j] = "named"]
  /\ UNCHANGED << key, result, waitErr, duration, regVars, procVars, files,
                  tailVars, sigVars, ctlVars, errorLog, clock, tempStamp,
                  progressName, toolVars >>

NamingNext ==
  \/ \E j \in Jobs, k \in Keys, ok \in BOOLEAN : Call(j, k, ok)
  \/ \E c \in Jobs : CleanupBegin(c)
  \/ \E j \in Jobs : NameTempOutput(j)
  \/ \E j \in Jobs, n \in Suffixes : CreateProgressFile(j, n)
  \/ \E j \in Jobs : NameReportFile(j)
  \/ Tick

NamingSpec == Init /\ [][NamingNext]_vars

\* -------------------------------------------------------- NewDefaultParams
\* ParamsSpec is one call of NewDefaultParams, with its argument and the
\* directory os.TempDir() returns as inputs.
MaxPathLen == 4

PathChars == {"a", ".", "/"}
TestMp4 == Str(<<"t", "e", "s", "t", ".", "m", "p", "4">>)
InputPaths == UNION {[1..n -> PathChars] : n \in 0..MaxPathLen} \cup {TestMp4}

\* os.TempDir() on Unix: $TMPDIR if it is not empty, else "/tmp".  The
\* values are /tmp, /var/tmp/ and the relative tmp.
TempRoots ==
  { Str(<<"/", "t", "m", "p">>),
    Str(<<"/", "v", "a", "r", "/", "t", "m", "p", "/">>),
    Str(<<"t", "m", "p">>) }

\* filepath.Ext: the loop from the end of the path down to the first
\* separator, returning path[i:] at the first dot it meets.
RECURSIVE ExtFrom(_, _)
ExtFrom(path, i) ==
  IF i < 1 \/ path[i] = "/" THEN EmptyStr
  ELSE IF path[i] = "." THEN SubSeq(path, i, Len(path))
  ELSE ExtFrom(path, i - 1)

Ext(path) == ExtFrom(path, Len(path))

\* filepath.Clean on paths without . and .. elements: repeated separators
\* become one and a trailing separator is dropped.
RECURSIVE Clean(_)
Clean(path) ==
  IF Len(path) <= 1 THEN path
  ELSE LET rest == Clean(Tail(path)) IN
       IF Head(path) = "/" /\ rest = <<"/">> THEN rest
       ELSE IF Head(path) = "/" /\ Head(rest) = "/" THEN rest
       ELSE IF rest = <<"/">> THEN << Head(path) >>
       ELSE << Head(path) >> \o rest

\* filepath.Join of two elements.
Join(a, b) ==
  IF a = EmptyStr THEN Clean(b)
  ELSE IF b = EmptyStr THEN Clean(a)
  ELSE Clean(a \o <<"/">> \o b)

Optimized == Str(<<"_", "o", "p", "t", "i", "m", "i", "z", "e", "d">>)
FfmpegProcessing ==
  Str(<<"f", "f", "m", "p", "e", "g", "_", "p", "r", "o", "c", "e", "s", "s",
        "i", "n", "g">>)

NewDefaultParams(file, tmp) ==
  LET ext == Ext(file)
      base == SubSeq(file, 1, Len(file) - Len(ext))
  IN [InputFile |-> file,
      OutputFile |-> base \o Optimized \o ext,
      MemoryLimit |-> Str(<<"4", "G">>),
      TempDir |-> Join(tmp, FfmpegProcessing)]

CallNewDefaultParams ==
  /\ params = NoParams
  /\ params' = NewDefaultParams(inputFile, tempRoot)
  /\ UNCHANGED << jobVars, regVars, procVars, files, tailVars, sigVars, ctlVars,
                  errorLog, nameVars, inputFile, tempRoot, rebuildVars >>

ParamsInit ==
  /\ pc = [j \in Jobs |-> "idle"]
  /\ key = [j \in Jobs |-> None]
  /\ result = [j \in Jobs |-> "none"]
  /\ procs = [k \in Keys |-> None]
  /\ lockHolder = None
  /\ proc = [j \in Jobs |-> "none"]
  /\ pending = [j \in Jobs |-> "none"]
  /\ procState = [j \in Jobs |-> "nil"]
  /\ helper = [j \in Jobs |-> "none"]
  /\ waitErr = [j \in Jobs |-> FALSE]
  /\ files = [p \in Paths |-> Absent]
  /\ duration = [j \in Jobs |-> None]
  /\ feed = [j \in Jobs |-> << >>]
  /\ tailer = [j \in Jobs |-> "off"]
  /\ lastProgress = [j \in Jobs |-> Float(0)]
  /\ stalled = [j \in Jobs |-> FALSE]
  /\ graceExpired = FALSE
  /\ termRequested = [j \in Jobs |-> FALSE]
  /\ stallFired = [j \in Jobs |-> FALSE]
  /\ killSent = [j \in Jobs |-> FALSE]
  /\ cleanedBy = [j \in Jobs |-> None]
  /\ exitedInGrace = FALSE
  /\ lastDelivered = [j \in Jobs |-> Float(-1)]
  /\ listing = [ok |-> FALSE, streams |-> << >>]
  /\ probe = [ok |-> FALSE, val |-> 0]
  /\ selection = NotSelected
  /\ errorLog = [j \in Jobs |-> {}]
  /\ clock = 1
  /\ tempStamp = [j \in Jobs |-> None]
  /\ progressName = [j \in Jobs |-> None]
  /\ reportStamp = [j \in Jobs |-> None]
  /\ inputFile \in InputPaths
  /\ tempRoot \in TempRoots
  /\ params = NoParams
  /\ linux = FALSE
  /\ rpc = "idle"
  /\ ran = << >>
  /\ rresult = "none"
  /\ polls = 0
  /\ status = NoStatus

ParamsNext == CallNewDefaultParams

ParamsSpec == ParamsInit /\ [][ParamsNext]_vars

\* ---------------------------------------------------------- ExecuteRebuild
\* RebuildSpec is one call of ExecuteRebuild of pkg/rebuild.  git, go, chmod
\* and systemctl are opaque: each command succeeds or fails, and systemctl
\* is-active prints a state and exits with or without an error.
MaxPolls == 5

\* The step is logged with its outcome.
Ran(name, ok) == Append(ran, [step |-> name, ok |-> ok])

\* return result, with result.Success = ok
RebuildReturn(ok) ==
  /\ rresult' = IF ok THEN "Success" ELSE "Failure"
  /\ rpc' = "returned"

\* A step whose error makes ExecuteRebuild return: if err := ...; err != nil
\* { ...; return result }, else on to the next step.
RebuildStep(name, ok, next) ==
  /\ ran' = Ran(name, ok)
  /\ IF ok THEN rpc' = next /\ UNCHANGED rresult ELSE RebuildReturn(FALSE)
  /\ UNCHANGED << jobVars, regVars, procVars, files, tailVars, sigVars, ctlVars,
                  errorLog, nameVars, paramVars, linux, polls, status >>

CheckStatus(ok) ==
  /\ rpc = "checkStatus"
  /\ RebuildStep("checkStatus", ok, "pull")
\* A pull whose error is only logged.
PullLenient(ok) ==
  /\ rpc = "pull"
  /\ ran' = Ran("pull", ok)
  /\ rpc' = "build"
  /\ UNCHANGED << jobVars, regVars, procVars, files, tailVars, sigVars, ctlVars,
                  errorLog, nameVars, paramVars, linux, rresult, polls, status >>

Pull(ok) ==
  /\ rpc = "pull"
  /\ RebuildStep("pull", ok, "build")
Build(ok) ==
  /\ rpc = "build"
  /\ RebuildStep("build", ok, "setPermissions")

\* builder.setPermissions(), then if isLinux() the service steps, else the
\* successful return.
SetPermissions(ok) ==
  /\ rpc = "setPermissions"
  /\ ran' = Ran("setPermissions", ok)
  /\ IF ok /\ linux THEN rpc' = "stop" /\ UNCHANGED rresult
     ELSE RebuildReturn(ok)
  /\ UNCHANGED << jobVars, regVars, procVars, files, tailVars, sigVars, ctlVars,
                  errorLog, nameVars, paramVars, linux, polls, status >>

StopService(ok) ==
  /\ rpc = "stop"
  /\ RebuildStep("stop", ok, "waitInactive")

\* The outputs of systemctl is-active, and strings.TrimSpace on them.
IsActiveOutputs ==
  { Str(<<"a", "c", "t", "i", "v", "e", "\n">>),
    Str(<<"i", "n", "a", "c", "t", "i", "v", "e", "\n">>),
    Str(<<"f", "a", "i", "l", "e", "d", "\n">>) }

Space(c) == c \in {" ", "\n", "\t", "\r"}

RECURSIVE TrimLeft(_)
TrimLeft(str) ==
  IF str # << >> /\ Space(Head(str)) THEN TrimLeft(Tail(str)) ELSE str

RECURSIVE TrimRight(_)
TrimRight(str) ==
  IF str # << >> /\ Space(str[Len(str)])
  THEN TrimRight(SubSeq(str, 1, Len(str) - 1)) ELSE str

TrimSpace(str) == TrimRight(TrimLeft(str))

\* sm.getStatus(): cmd.Output(), "" and the error on an error.
getStatus(output, exitOk) ==
  IF exitOk THEN [text |-> TrimSpace(output), err |-> FALSE]
  ELSE [text |-> EmptyStr, err |-> TRUE]

Expected(name) ==
  IF name = "waitInactive" THEN Str(<<"i", "n", "a", "c", "t", "i", "v", "e">>)
  ELSE Str(<<"a", "c", "t", "i", "v", "e">>)

\* One iteration of the loop of waitForStatus: the timeout test, then
\* getStatus and the comparison, then the sleep.  After waitInactive comes
\* the restart, after waitActive the successful return.
WaitForStatus(expired, output, exitOk) ==
  /\ rpc \in {"waitInactive", "waitActive"}
  /\ IF expired
     THEN /\ ran' = Ran(rpc, FALSE)
          /\ RebuildReturn(FALSE)
          /\ UNCHANGED << polls, status >>
     ELSE LET st == getStatus(output, exitOk) IN
          /\ status' = st
          /\ IF ~st.err /\ st.text = Expected(rpc)
             THEN /\ ran' = Ran(rpc, TRUE)
                  /\ polls' = 0
                  /\ IF rpc = "waitInactive"
                     THEN rpc' = "restart" /\ UNCHANGED rresult
                     ELSE RebuildReturn(TRUE)
             ELSE /\ polls < MaxPolls
                  /\ polls' = polls + 1
                  /\ UNCHANGED << ran, rpc, rresult >>
  /\ UNCHANGED << jobVars, regVars, procVars, files, tailVars, sigVars, ctlVars,
                  errorLog, nameVars, paramVars, linux >>

\* sm.restart(): its error is logged and the explicit start is tried.
RestartService(ok) ==
  /\ rpc = "restart"
  /\ ran' = Ran("restart", ok)
  /\ rpc' = IF ok THEN "waitActive" ELSE "start"
  /\ UNCHANGED << jobVars, regVars, procVars, files, tailVars, sigVars, ctlVars,
                  errorLog, nameVars, paramVars, linux, rresult, polls, status >>

StartService(ok) ==
  /\ rpc = "start"
  /\ RebuildStep("start", ok, "waitActive")

RebuildInit ==
  /\ pc = [j \in Jobs |-> "idle"]
  /\ key = [j \in Jobs |-> None]
  /\ result = [j \in Jobs |-> "none"]
  /\ procs = [k \in Keys |-> None]
  /\ lockHolder = None
  /\ proc = [j \in Jobs |-> "none"]
  /\ pending = [j \in Jobs |-> "none"]
  /\ procState = [j \in Jobs |-> "nil"]
  /\ helper = [j \in Jobs |-> "none"]
  /\ waitErr = [j \in Jobs |-> FALSE]
  /\ files = [p \in Paths |-> Absent]
  /\ duration = [j \in Jobs |-> None]
  /\ feed = [j \in Jobs |-> << >>]
  /\ tailer = [j \in Jobs |-> "off"]
  /\ lastProgress = [j \in Jobs |-> Float(0)]
  /\ stalled = [j \in Jobs |-> FALSE]
  /\ graceExpired = FALSE
  /\ termRequested = [j \in Jobs |-> FALSE]
  /\ stallFired = [j \in Jobs |-> FALSE]
  /\ killSent = [j \in Jobs |-> FALSE]
  /\ cleanedBy = [j \in Jobs |-> None]
  /\ exitedInGrace = FALSE
  /\ lastDelivered = [j \in Jobs |-> Float(-1)]
  /\ listing = [ok |-> FALSE, streams |-> << >>]
  /\ probe = [ok |-> FALSE, val |-> 0]
  /\ selection = NotSelected
  /\ errorLog = [j \in Jobs |-> {}]
  /\ clock = 1
  /\ tempStamp = [j \in Jobs |-> None]
  /\ progressName = [j \in Jobs |-> None]
  /\ reportStamp = [j \in Jobs |-> None]
  /\ inputFile = << >>
  /\ tempRoot = << >>
  /\ params = NoParams
  /\ linux \in BOOLEAN
  /\ rpc = "checkStatus"
  /\ ran = << >>
  /\ rresult = "none"
  /\ polls = 0
  /\ status = NoStatus

RebuildNext ==
  \/ \E ok \in BOOLEAN : CheckStatus(ok)
  \/ \E ok \in BOOLEAN : Pull(ok)
  \/ \E ok \in BOOLEAN : Build(ok)
  \/ \E ok \in BOOLEAN : SetPermissions(ok)
  \/ \E ok \in BOOLEAN : StopService(ok)
  \/ \E expired \in BOOLEAN, output \in IsActiveOutputs, exitOk \in BOOLEAN :
       WaitForStatus(expired, output, exitOk)
  \/ \E ok \in BOOLEAN : RestartService(ok)
  \/ \E ok \in BOOLEAN : StartService(ok)

RebuildSpec == RebuildInit /\ [][RebuildNext]_vars

\* ------------------------------------------------------------------ claims
Success(j) == Returned(j) /\ result[j] = "Success"
Failed(j) == Returned(j) /\ result[j] # "Success"
Dest(j) == files[OutputFile(key[j])]

C2_NoTempFileLeft ==
  \A j \in Jobs :
    Returned(j) =>
      /\ files[TempOutput(j)] = Absent
      /\ files[ProgressFile(j)] = Absent
      /\ files[ReportFile(j)] = Absent

\* C3: no two jobs of the same key have a live engine process at once.
C3_OneEnginePerKey ==
  \A i, j \in Jobs : (i # j /\ key[i] = key[j]) => ~(Live(i) /\ Live(j))

\* C4: when the CleanupProcess of job j found the started process of job i
\* under its key, job i has returned before job j starts its engine.
C4_FirstReturnsBeforeSecondRuns ==
  \A i, j \in Jobs : (cleanedBy[i] = j /\ proc[j] # "none") => Returned(i)

\* C5: a job whose process was sent SIGTERM (by CleanupProcess or by the stall
\* branch of its tailer) never returns Success.
C5_NoSuccessAfterTerminate ==
  \A j \in Jobs : termRequested[j] => ~Success(j)

\* C6: the sample the tailer passes to OnProgress is strictly greater than the
\* last one it passed for that job.
C6_DeliveredStrictlyIncreasing ==
  \A j \in Jobs :
    (tailer[j] = "calling" /\ lastDelivered[j] # Float(-1)) =>
      Greater(Sample(j), lastDelivered[j])

\* C7: if the stall window has passed while the engine is still running, then
\* eventually SIGTERM is sent to it (or it has exited, or progress has resumed):
\* the job does not stay in that state forever.
C7_StallLeadsToTermination ==
  \A j \in Jobs :
    (stalled[j] /\ Live(j)) ~> (termRequested[j] \/ ~Live(j) \/ ~stalled[j])

\* C8: after a job that had registered its cmd has returned, no registry entry
\* refers to that cmd.
C8_ReturnedJobUnregistered ==
  \A j \in Jobs :
    (Returned(j) /\ result[j] \in {"SpawnError", "EngineError", "CommitError", "Success"})
      => \A k \in Keys : procs[k] # j

\* C9: OnProgress of a job is not invoked once its OptimizeMedia has returned.
C9_NoCallbackAfterReturn ==
  [][\A j \in Jobs : Returned(j) => ~TailerCall(j)]_vars

C11_StallEscalatesToKill ==
  \A j \in Jobs : (stallFired[j] /\ Live(j)) ~> ~Live(j)

\* C12: the registry mutex is not held while a caller waits for a process to
\* exit or for the grace period: during the select of a CleanupProcess the
\* mutex is free, so a job about to lock it for its own registry operation
\* (the lookup of its CleanupProcess, the delete after cmd.Wait) finds it free.
C12_LockFreeWhileWaiting ==
  /\ \A c \in Jobs : InSelect(c) => lockHolder = None
  /\ \A j \in Jobs : pc[j] \in {"cleanup", "finish"} => lockHolder = None

\* C13: a job's process is terminated by a new job of its key only once the
\* new job's probes have succeeded: the new job is past its probing, and has
\* not failed at it.
C13_SupersedeOnlyAfterProbes ==
  \A i, j \in Jobs :
    cleanedBy[i] = j =>
      /\ pc[j] \notin {"select", "prepare"}
      /\ result[j] # "ProbeError"

\* C14: the audio-stream selector has run only in a job whose duration probe
\* has already been run and has succeeded.
C14_SelectorAfterDurationProbe ==
  selection.done => (probe.ok /\ pc[Caller] # "probe")

\* C15: when getDuration returns an error, the call never registers a cmd and
\* never starts an engine, it does not go on past the probe, and what it
\* returns is a failed result.
C15_ProbeFailureIsFatal ==
  ~probe.ok =>
    /\ proc[Caller] = "none"
    /\ \A k \in Keys : procs[k] # Caller
    /\ pc[Caller] \notin {"size", "start", "wait"}
    /\ (selection.done /\ pc[Caller] # "probe") =>
         (Failed(Caller) /\ result[Caller] = "ProbeError")

\* The duration probe has failed and the call has returned its error.
C15_Witness ==
  /\ ~probe.ok
  /\ selection.done
  /\ Returned(Caller) /\ result[Caller] = "ProbeError"

\* C16: a probed duration of 0 or less fails the job with ProbeError: no job
\* goes on past the probe with it, and no engine runs with a total duration
\* that is not positive.
C16_NonPositiveDurationRejected ==
  /\ (probe.ok /\ probe.val <= 0) => pc[Caller] \notin {"size", "start", "wait"}
  /\ Live(Caller) => duration[Caller] > 0

\* C17: when the stream selector has failed, the job does not carry on with a
\* default index: the call has returned a failed result.
C17_SelectorErrorReported ==
  (selection.done /\ selection.err) => Failed(Caller)

\* The tiers of the selection policy that C18..C20 state, as sets of
\* positions in the listing.
AudioTracks(ss) == {i \in 1..Len(ss) : ss[i].codec_type = "audio"}
TargetCode == LangEng
TargetName == LangEnglish
Tier1(ss) ==
  {i \in AudioTracks(ss) : ss[i].tagged /\ ToLower(ss[i].language) = TargetCode}
Tier2(ss) ==
  {i \in AudioTracks(ss) : ss[i].tagged /\ Contains(ToLower(ss[i].title), TargetName)}
Tier3(ss) == {i \in AudioTracks(ss) : ss[i].channels \in {6, 2}}
Tier4(ss) == AudioTracks(ss)
Lowest(S) == CHOOSE i \in S : \A h \in S : i <= h
LowerTiers(ss) ==
  IF Tier2(ss) # {} THEN Tier2(ss) ELSE IF Tier3(ss) # {} THEN Tier3(ss) ELSE Tier4(ss)
HighestTier(ss) == IF Tier1(ss) # {} THEN Tier1(ss) ELSE LowerTiers(ss)
ContainsOnly(ss) ==
  {i \in AudioTracks(ss) :
     /\ ss[i].tagged
     /\ Contains(ToLower(ss[i].language), TargetCode)
     /\ ToLower(ss[i].language) # TargetCode}

\* The selector has run on a listing and has returned the track at position i.
Probed == selection.done /\ listing.ok
Selected(i) == Probed /\ ~selection.err /\ selection.index = i - 1

\* C18: on a listing with an audio track whose language tag equals the target
\* code case-insensitively, the selector returns the lowest such track; and a
\* track whose tag only contains the code is returned only when no track's tag
\* equals it and the lower tiers choose that track.
C18_Tier1ExactLanguageTag ==
  LET ss == listing.streams IN
  Probed =>
    /\ Tier1(ss) # {} => Selected(Lowest(Tier1(ss)))
    /\ \A i \in ContainsOnly(ss) :
         Selected(i) => (Tier1(ss) = {} /\ i = Lowest(LowerTiers(ss)))

\* C19: on a listing without a language-tag match and with an audio track
\* whose title contains the target language name case-insensitively, the
\* selector returns the lowest such track.
C19_Tier2TitleMatch ==
  LET ss == listing.streams IN
  (Probed /\ Tier1(ss) = {} /\ Tier2(ss) # {}) => Selected(Lowest(Tier2(ss)))

\* C20: on a listing without a match by language tag or by title, the selector
\* returns the first audio track with 6 or 2 channels, and the first audio
\* track only when there is none; and the track it returns always belongs to
\* the highest tier that has a match.
C20_Tier3ChannelsThenFirst ==
  LET ss == listing.streams IN
  /\ (Probed /\ Tier1(ss) = {} /\ Tier2(ss) = {} /\ Tier4(ss) # {}) =>
       Selected(Lowest(LowerTiers(ss)))
  /\ \A i \in 1..Len(ss) : Selected(i) => i \in HighestTier(ss)

\* C21: for every probed stream list without a track of codec type audio the
\* selector returns an error, and the error is the one that says that no
\* audio stream was found.
NoAudioStream == "no suitable audio stream found"

C21_NoAudioReportsNoAudioStream ==
  (Probed /\ AudioTracks(listing.streams) = {}) =>
    (selection.err /\ selection.msg = NoAudioStream)

\* What the claims say of a progress line: it is well formed if it is the key
\* out_time_ms with the decimal text of an integer.
WellFormed(line) == line.key = "out_time_ms" /\ line.num

\* x = (N / 1000000) / D * 100, as an equation between integers.
IsPercentOf(x, N, D) == x.den > 0 /\ x.num * (1000000 * D) = (N * 100) * x.den

\* C22: for every well-formed line out_time_ms=N and every duration D > 0,
\* parseProgress gives (N / 1000000) / D * 100, and 50 for N = 5000000, D = 10.
C22_ParseProgressIsPercentage ==
  /\ \A j \in Jobs :
       (feed[j] # << >> /\ WellFormed(Head(feed[j])) /\ duration[j] > 0) =>
         IsPercentOf(Sample(j), Head(feed[j]).val, duration[j])
  /\ parseProgress(Line("out_time_ms", TRUE, 5000000), 10) = Float(50)

C22_Witness ==
  \E j \in Jobs : duration[j] = 10 /\ lastDelivered[j] = Float(50)

\* C23: a line that is not a well-formed out_time_ms line yields no sample:
\* the tailer never holds such a line for a call of OnProgress.
C23_MalformedLineYieldsNoSample ==
  \A j \in Jobs : tailer[j] = "calling" => WellFormed(Head(feed[j]))

\* The step of job j from cmd.Wait's return to the return of OptimizeMedia,
\* and whether its os.Rename moved the temporary output to the destination.
Finishing(j) == pc[j] = "finish" /\ pc'[j] = "returned"
Renamed(j) ==
  /\ files[TempOutput(j)] # Absent
  /\ files'[OutputFile(key[j])] = files[TempOutput(j)]
  /\ files'[TempOutput(j)] = Absent

\* C25: when cmd.Wait reported a successful exit and the rename fails, the
\* call returns the commit error and the temporary output has been removed.
C25_CommitFailureRemovesTemp ==
  [][\A j \in Jobs :
       (Finishing(j) /\ ~waitErr[j] /\ ~Renamed(j)) =>
         (result'[j] = "CommitError" /\ files'[TempOutput(j)] = Absent)]_vars

C25_Witness ==
  \E j \in Jobs :
    /\ Returned(j)
    /\ result[j] = "CommitError"
    /\ procState[j] = "exited"
    /\ ~waitErr[j]
    /\ files[TempOutput(j)] = Absent
    /\ files[OutputFile(key[j])] = Absent

\* C26: the result is Success exactly when cmd.Wait reported a successful
\* exit and the rename succeeded, and it is the engine error exactly when
\* cmd.Wait reported an error: what the engine wrote to stderr plays no part.
C26_OutcomeFromWaitAndRename ==
  [][\A j \in Jobs :
       Finishing(j) =>
         /\ result'[j] = "Success" <=> (~waitErr[j] /\ Renamed(j))
         /\ result'[j] = "EngineError" <=> waitErr[j]]_vars

C26_Witness ==
  \E j \in Jobs : Success(j) /\ errorLog[j] # {} /\ procState[j] = "exited"

\* C24: every value passed to OnProgress lies between 0 and 100.
C24_DeliveredWithinRange ==
  \A j \in Jobs :
    lastDelivered[j] # Float(-1) =>
      (AtLeast(lastDelivered[j], Float(0)) /\ ~Greater(lastDelivered[j], Float(100)))

\* C27: when the CleanupProcess of a call has returned, having found a started
\* process under its key, the registry has no entry for the key and that
\* process is no longer running.
C27_CleanupLeavesNoProcess ==
  \A c \in Jobs, t \in Jobs :
    (pc[c] = "prepare" /\ cleanedBy[t] = c) =>
      (procs[key[c]] = None /\ ~Live(t))

\* C28: a removal from the registry for a key that has no entry, by
\* CleanupProcess or by the delete at the end of a job, changes no entry of
\* the registry and sends no signal.
C28_AbsentKeyRemovalIsNoOp ==
  [][\A j \in Jobs :
       (pc[j] \in {"cleanup", "finish"} /\ pc'[j] # pc[j] /\ procs[key[j]] = None) =>
         UNCHANGED << procs, pending, termRequested, killSent >>]_vars

C28_Witness ==
  \E j \in Jobs, c \in Jobs :
    /\ Returned(j)
    /\ result[j] \in {"Success", "EngineError", "CommitError"}
    /\ cleanedBy[j] = c
    /\ pc[c] = "prepare"
    /\ procs[key[j]] = None

\* C29: a call whose input does not exist returns a failure and does nothing
\* else: no process, no file, no signal, and the registry is left as it was.
C29_MissingInputHasNoEffect ==
  [][\A j \in Jobs :
       (pc[j] = "idle" /\ result'[j] = "InputError") =>
         /\ pc'[j] = "returned"
         /\ UNCHANGED << procs, lockHolder, procVars, files, tailVars, sigVars >>]_vars

C29_Witness ==
  \E i \in Jobs, j \in Jobs :
    /\ Failed(j)
    /\ result[j] = "InputError"
    /\ key[i] = key[j]
    /\ procs[key[j]] = i
    /\ Live(i)
    /\ ~termRequested[i]
    /\ files[TempOutput(j)] = Absent
    /\ files[ProgressFile(j)] = Absent

\* C30: two calls for different inputs that have named their temporary files
\* have different temporary outputs, different progress files and different
\* report files.
C30_TempPathsUniquePerJob ==
  \A i \in Jobs, j \in Jobs :
    (i # j /\ pc[i] = "named" /\ pc[j] = "named" /\ key[i] # key[j]) =>
      /\ tempStamp[i] # tempStamp[j]
      /\ progressName[i] # progressName[j]
      /\ reportStamp[i] # reportStamp[j]

\* C31: the callback of a job runs in one activity at a time: a sample is
\* delivered only by the tailer ending the call it was in, and the tailer
\* reads its next line only after that call has returned.
C31_CallbackInOneActivity ==
  [][\A j \in Jobs :
       (lastDelivered'[j] # lastDelivered[j] /\ lastDelivered'[j] # Float(-1)) =>
         (tailer[j] = "calling" /\ tailer'[j] = "reading")]_vars

C31_Witness ==
  \E j \in Jobs :
    /\ tailer[j] = "calling"
    /\ lastDelivered[j] # Float(-1)
    /\ Sample(j) # lastDelivered[j]

\* What C32 says of a path: its extension starts at the last dot of its last
\* element, and is empty if that element has no dot.
LastDots(path) ==
  {i \in 1..Len(path) :
     path[i] = "." /\ \A m \in (i + 1)..Len(path) : path[m] \notin {".", "/"}}
StemEnd(path) ==
  IF LastDots(path) = {} THEN Len(path) ELSE (CHOOSE i \in LastDots(path) : TRUE) - 1
WithOptimized(path) ==
  SubSeq(path, 1, StemEnd(path)) \o Optimized \o SubSeq(path, StemEnd(path) + 1, Len(path))
IsAbs(path) == Len(path) > 0 /\ path[1] = "/"

\* C32: NewDefaultParams returns the input unchanged as InputFile, the input
\* with "_optimized" before its extension as OutputFile, "4G" as MemoryLimit
\* and an absolute path as TempDir.
C32_DefaultParams ==
  params # NoParams =>
    /\ params.InputFile = inputFile
    /\ params.OutputFile = WithOptimized(inputFile)
    /\ inputFile = TestMp4 =>
         params.OutputFile =
           Str(<<"t", "e", "s", "t", "_", "o", "p", "t", "i", "m", "i", "z", "e", "d",
                 ".", "m", "p", "4">>)
    /\ params.MemoryLimit = Str(<<"4", "G">>)
    /\ IsAbs(params.TempDir)

\* The lines of the progress file of job j that its tailer has not parsed.
Unparsed(j) == IF tailer[j] = "calling" THEN Tail(feed[j]) ELSE feed[j]

\* C33: the tailer of a job reads until the feed is drained: it does not end
\* on the job's closing of the progress file while a well-formed line that
\* the engine wrote is still unparsed.
C33_TailerDrainsFeed ==
  [][\A j \in Jobs :
       (Tailing(j) /\ tailer'[j] = "stopped") =>
         \A i \in 1..Len(Unparsed(j)) : ~WellFormed(Unparsed(j)[i])]_vars

\* C34: a job whose process a CleanupProcess has signalled while the job was
\* blocked in cmd.Wait is unblocked with an error: its cmd.Wait does not
\* return nil.
C34_SupersededWaiterGetsError ==
  [][\A j \in Jobs :
       (pc[j] = "wait" /\ pc'[j] = "finish" /\ cleanedBy[j] # None) =>
         waitErr'[j]]_vars

\* C35: the removal a job makes from the registry when it ends removes only
\* its own cmd: an entry that holds the cmd of another job is left as it is.
C35_RemovesOnlyOwnHandle ==
  [][\A j \in Jobs :
       Finishing(j) =>
         \A k \in Keys : (procs[k] # None /\ procs[k] # j) => procs'[k] = procs[k]]_vars

\* C36: every running engine process is tracked: the registry entry of its
\* job's key holds the cmd of that job.
C36_RunningProcessTracked ==
  \A j \in Jobs : Live(j) => procs[key[j]] = j

\* C37: every call of OptimizeMedia eventually returns, provided the engines
\* eventually exit.
C37_EveryCallReturns ==
  \A j \in Jobs : (pc[j] # "idle") ~> Returned(j)


\* The order of the steps of ExecuteRebuild; restart with its fallback start
\* is one step of the claim, made of two commands.
StepOrder ==
  << "checkStatus", "pull", "build", "setPermissions", "stop", "waitInactive",
     "restart", "start", "waitActive" >>

Position(name) == CHOOSE i \in 1..Len(StepOrder) : StepOrder[i] = name

\* The step that may follow a logged step.
NextStep(entry) ==
  IF entry.step = "restart"
  THEN IF entry.ok THEN "waitActive" ELSE "start"
  ELSE StepOrder[Position(entry.step) + 1]

\* C38: ExecuteRebuild runs checkStatus, pull, build, setPermissions and, on
\* Linux only, stop, wait for inactive, restart (start only after a failed
\* restart), wait for active, in that order and without leaving one out; a
\* step that fails is the last one run (a failed restart is followed by its
\* fallback start only); Success is returned only after the last step, with
\* every step run having succeeded (the restart through its fallback start).
C38_RebuildStepsInOrder ==
  /\ ran # << >> => ran[1].step = "checkStatus"
  /\ \A i \in 1..(Len(ran) - 1) :
       /\ ran[i].ok \/ ran[i].step = "restart"
       /\ ran[i + 1].step = NextStep(ran[i])
  /\ \A i \in 1..Len(ran) : Position(ran[i].step) > 4 => linux
  /\ rresult = "Failure" => ran # << >> /\ ~ran[Len(ran)].ok
  /\ rresult = "Success" =>
       /\ ran # << >>
       /\ ran[Len(ran)].step = IF linux THEN "waitActive" ELSE "setPermissions"
       /\ \A i \in 1..Len(ran) : ran[i].ok \/ ran[i].step = "restart"

\* A Linux rebuild that stopped the service, timed out waiting for it to be
\* inactive and returned the failure with no later step run.
C38_Witness ==
  /\ linux
  /\ rresult = "Failure"
  /\ Len(ran) = 6
  /\ ran[6] = [step |-> "waitInactive", ok |-> FALSE]
  /\ polls > 0

\* Both calls have returned, one of them after the cleanup of the other had
\* sent SIGTERM and then SIGKILL to its process.
C37_Witness ==
  /\ \A j \in Jobs : Returned(j)
  /\ \E j \in Jobs : cleanedBy[j] # None /\ killSent[j]

\* C39: the helper goroutine that CleanupProcess starts always terminates:
\* once started it eventually hands over the result of its Wait and ends,
\* also when the cleanup took the timeout branch, killed the process and
\* returned.
C39_HelperTerminates ==
  \A t \in Jobs : (helper[t] \in {"waiting", "sending"}) ~> (helper[t] = "finished")
====
